------------------------------ MODULE Spec2Model ------------------------------
(***************************************************************************)
(* A model of mbti.py: the score aligner, the compatibility scorer, the    *)
(* chat-log parser and the Streamlit session (upload, analysis, chat turn, *)
(* reset).  Text is modelled as a sequence of one-character strings.       *)
(***************************************************************************)
EXTENDS Integers, Sequences, FiniteSets, TLC

VARIABLES
    \* one call of align_scores_with_mbti
    a_mbti, a_scores, a_input, a_out, a_pc,
    \* one call of tool_calculate_compatibility
    c_a, c_b, c_out, c_pc,
    \* one run of parse_line_chat_dynamic, line by line
    p_messages, p_accepted, p_nread, p_out, p_pc,
    \* the Streamlit session: widgets, st.session_state, the last chat turn
    api_key, uploaded_file, selected_names,
    messages, analysis_done, agent_chart, context_data, parsed_speakers,
    turn

alignVars  == <<a_mbti, a_scores, a_input, a_out, a_pc>>
compatVars == <<c_a, c_b, c_out, c_pc>>
parseVars  == <<p_messages, p_accepted, p_nread, p_out, p_pc>>
sessVars   == <<api_key, uploaded_file, selected_names, messages, analysis_done,
                agent_chart, context_data, parsed_speakers, turn>>
vars       == <<alignVars, compatVars, parseVars, sessVars>>

-----------------------------------------------------------------------------
(* Bounds of the model *)

MaxCodeLen  == 5    \* longest type code given to the aligner
MaxScoreLen == 5    \* longest score vector given to the aligner

\* Python's None where a text is expected: a sequence that is no text.
None == <<"None">>

Min(a, b) == IF a <= b THEN a ELSE b
Max(a, b) == IF a >= b THEN a ELSE b
Abs(x)    == IF x < 0 THEN -x ELSE x

\* All sequences over S of length 0..n.
SeqsUpTo(S, n) == UNION {[1..k -> S] : k \in 0..n}

\* Python's  c in s  for a one-character c.
CharIn(c, s) == \E i \in 1..Len(s) : s[i] = c

-----------------------------------------------------------------------------
(* align_scores_with_mbti, mbti.py 28-48 *)

\* str.upper() on the letters the model's codes are written with.
UpperChar(c) ==
    CASE c = "i" -> "I" [] c = "e" -> "E" [] c = "s" -> "S" [] c = "n" -> "N"
      [] c = "t" -> "T" [] c = "f" -> "F" [] c = "j" -> "J" [] c = "p" -> "P"
      [] OTHER -> c

Upper(s) == [i \in 1..Len(s) |-> UpperChar(s[i])]

\* One  if low in mbti: min(.., 45)  elif high in mbti: max(.., 55)  pair.
AlignDimSwapped(mbti, low, high, v) ==
    IF CharIn(low, mbti) THEN Max(v, 55)
    ELSE IF CharIn(high, mbti) THEN Min(v, 45) ELSE v

AlignDim(mbti, low, high, v) ==
    IF CharIn(low, mbti) THEN Min(v, 45)
    ELSE IF CharIn(high, mbti) THEN Max(v, 55) ELSE v

\* The value returned and the caller's list after the call: the code works on
\* a copy, list(raw_scores), so the caller's list is left as it was.
align_scores_with_mbti(mbti_type, raw_scores) ==
    IF mbti_type = None \/ mbti_type = <<>> \/ Len(raw_scores) # 4
    THEN [ret |-> <<50, 50, 50, 50>>, arg |-> raw_scores]
    ELSE LET mbti == Upper(mbti_type)
             corrected == <<AlignDim(mbti, "I", "E", raw_scores[1]),
                            AlignDim(mbti, "S", "N", raw_scores[2]),
                            AlignDim(mbti, "T", "F", raw_scores[3]),
                            AlignDim(mbti, "J", "P", raw_scores[4])>>
         IN  [ret |-> corrected, arg |-> raw_scores]

\* The inputs of the aligner's specification.
ScoreVals      == {0, 10, 45, 50, 55, 100}
ShortScoreVals == {10, 90}
CodeAlphabet   == {"I", "n", "X"}

\* One letter of each pair, in the pairs' order, in either case.
ValidCodes ==
    {<<a, b, c, d>> : a \in {"I", "E", "i", "e"}, b \in {"S", "N", "s", "n"},
                      c \in {"T", "F", "t", "f"}, d \in {"J", "P", "j", "p"}}

AnyCodes == {None} \cup SeqsUpTo(CodeAlphabet, MaxCodeLen)
                   \cup {<<"E", "N", "T", "J">>, <<"i", "s", "f", "p">>}

IdleAlign ==
    /\ a_mbti = None /\ a_scores = <<>> /\ a_input = <<>>
    /\ a_out = <<>> /\ a_pc = "idle"

InitAlign ==
    /\ \/ a_mbti \in ValidCodes /\ a_scores \in [1..4 -> ScoreVals]
       \/ a_mbti \in AnyCodes /\ a_scores \in SeqsUpTo(ShortScoreVals, MaxScoreLen)
    /\ a_input = a_scores
    /\ a_out = <<>>
    /\ a_pc = "call"

\* The call: a_scores is the caller's list, a_input what it held at the call.
Align ==
    /\ a_pc = "call"
    /\ LET r == align_scores_with_mbti(a_mbti, a_scores)
       IN  a_out' = r.ret /\ a_scores' = r.arg
    /\ a_pc' = "done"
    /\ UNCHANGED <<a_mbti, a_input, compatVars, parseVars, sessVars>>

-----------------------------------------------------------------------------
(* tool_calculate_compatibility, mbti.py 109-117 *)

\* zip(scores_a, scores_b) and the running  diff_sum += abs(a - b).
RECURSIVE DiffSum(_, _, _)
DiffSum(sa, sb, n) ==
    IF n = 0 THEN 0 ELSE DiffSum(sa, sb, n - 1) + Abs(sa[n] - sb[n])

\* int(x) for x = q / 4: Python truncates towards zero.
IntOfQuartersRounded(q) == (q + 2) \div 4

IntOfQuarters(q) == IF q >= 0 THEN q \div 4 ELSE -((-q) \div 4)

\* score = 100 - diff_sum * 0.25 is held exactly, in quarters: 400 - diff_sum.
tool_calculate_compatibility(scores_a, scores_b) ==
    LET diff_sum == DiffSum(scores_a, scores_b, Min(Len(scores_a), Len(scores_b)))
        score4   == 400 - diff_sum
    IN  Max(10, Min(99, IntOfQuarters(score4)))

CompatVals == {0, 2, 5, 50, 100}

IdleCompat == c_a = <<>> /\ c_b = <<>> /\ c_out = 0 /\ c_pc = "idle"

InitCompat ==
    /\ c_a \in [1..4 -> CompatVals]
    /\ c_b \in [1..4 -> CompatVals]
    /\ c_out = 0
    /\ c_pc = "call"

Compat ==
    /\ c_pc = "call"
    /\ c_out' = tool_calculate_compatibility(c_a, c_b)
    /\ c_pc' = "done"
    /\ UNCHANGED <<c_a, c_b, alignVars, parseVars, sessVars>>

-----------------------------------------------------------------------------
(* Text operations of Python that the parser uses *)

Whitespace == {" ", "\t", "\n", "\r"}
Digits     == {"0", "1", "2", "3", "4", "5", "6", "7", "8", "9"}

\* str.strip()
RECURSIVE LStrip(_)
LStrip(s) == IF s # <<>> /\ Head(s) \in Whitespace THEN LStrip(Tail(s)) ELSE s

RECURSIVE RStrip(_)
RStrip(s) ==
    IF s # <<>> /\ s[Len(s)] \in Whitespace THEN RStrip(SubSeq(s, 1, Len(s) - 1))
    ELSE s

Strip(s) == LStrip(RStrip(s))

\* str.split(sep, maxsplit) for a one-character sep: every occurrence splits,
\* so two separators in a row give an empty field.
RECURSIVE SplitMax(_, _, _)
SplitMax(s, sep, maxsplit) ==
    IF maxsplit = 0 \/ ~CharIn(sep, s) THEN <<s>>
    ELSE LET i == CHOOSE k \in 1..Len(s) :
                      s[k] = sep /\ \A j \in 1..(k - 1) : s[j] # sep
         IN  <<SubSeq(s, 1, i - 1)>>
                 \o SplitMax(SubSeq(s, i + 1, Len(s)), sep, maxsplit - 1)

\* str.split(sep): no limit on the number of splits.
Split(s, sep) == SplitMax(s, sep, Len(s))

\* sub in s
Contains(s, sub) ==
    \E i \in 0..(Len(s) - Len(sub)) : SubSeq(s, i + 1, i + Len(sub)) = sub

\* s.endswith(suffix)
EndsWith(s, suffix) ==
    /\ Len(s) >= Len(suffix)
    /\ SubSeq(s, Len(s) - Len(suffix) + 1, Len(s)) = suffix

\* s.replace(pat, ""): every occurrence, left to right.
RECURSIVE Remove(_, _)
Remove(s, pat) ==
    IF Len(s) < Len(pat) THEN s
    ELSE IF SubSeq(s, 1, Len(pat)) = pat
         THEN Remove(SubSeq(s, Len(pat) + 1, Len(s)), pat)
         ELSE <<Head(s)>> \o Remove(Tail(s), pat)

\* sep.join(items)
RECURSIVE Join(_, _)
Join(items, sep) ==
    IF items = <<>> THEN <<>>
    ELSE IF Len(items) = 1 THEN items[1]
    ELSE items[1] \o sep \o Join(Tail(items), sep)

-----------------------------------------------------------------------------
(* parse_line_chat_dynamic, mbti.py 57-106 *)

\* A character of a keyword outside ASCII is written by its code point.
skip_keywords ==
    { <<"U+901A", "U+8A71", "U+6642", "U+9593">>,
      <<"C", "a", "l", "l", " ", "t", "i", "m", "e">>,
      <<"U", "n", "s", "e", "n", "d", " ", "m", "e", "s", "s", "a", "g", "e">>,
      <<"U+5DF2", "U+6536", "U+56DE", "U+8A0A", "U+606F">>,
      <<"j", "o", "i", "n", "e", "d", " ", "t", "h", "e", " ", "c", "h", "a", "t">>,
      <<"i", "n", "v", "i", "t", "e">>,
      <<"U+52A0", "U+5165", "U+804A", "U+5929">>,
      <<"i", "n", "v", "i", "t", "e", "d">>,
      <<"U+9080", "U+8ACB">> }

invalid_names ==
    { <<"Y", "o", "u">>,
      <<"y", "o", "u">>,
      <<"S", "y", "s", "t", "e", "m">>,
      <<"M", "o", "n", "d", "a", "y">>,
      <<"T", "u", "e", "s", "d", "a", "y">>,
      <<"W", "e", "d", "n", "e", "s", "d", "a", "y">>,
      <<"T", "h", "u", "r", "s", "d", "a", "y">>,
      <<"F", "r", "i", "d", "a", "y">>,
      <<"S", "a", "t", "u", "r", "d", "a", "y">>,
      <<"S", "u", "n", "d", "a", "y">> }

SuffixPhotos   == <<" ", "P", "h", "o", "t", "o", "s">>
SuffixStickers == <<" ", "S", "t", "i", "c", "k", "e", "r", "s">>
MsgPhotos      == <<"[", "P", "h", "o", "t", "o", "s", "]">>
MsgStickers    == <<"[", "S", "t", "i", "c", "k", "e", "r", "s", "]">>

\* The number of messages a speaker needs to be kept.
MinMessages == 3

\* re.match(r'^\d{1,2}:\d{2}$', time_str)
MatchesTime(time_str) ==
    \E h \in {1, 2} :
        /\ Len(time_str) = h + 3
        /\ \A i \in 1..h : time_str[i] \in Digits
        /\ time_str[h + 1] = ":"
        /\ time_str[h + 2] \in Digits
        /\ time_str[h + 3] \in Digits

\* The fields of a stripped line: the tab split, or with fewer than three
\* fields the split on the first two spaces.
LineParts(line) ==
    LET tabs == Split(line, "\t")
    IN  IF Len(tabs) < 3 THEN SplitMax(line, " ", 2) ELSE tabs

CleanName(name) ==
    LET n1 == IF EndsWith(name, SuffixPhotos) THEN Remove(name, SuffixPhotos)
              ELSE name
    IN  IF EndsWith(n1, SuffixStickers) THEN Remove(n1, SuffixStickers) ELSE n1

Rejected == [ok |-> FALSE, name |-> <<>>, msg |-> <<>>]

\* The body of the loop up to the append: whether the line gives a message,
\* and then its speaker and its text.
ParseLine(raw) ==
    LET line == Strip(raw)
    IN  IF line = <<>> THEN Rejected
        ELSE LET parts == LineParts(line)
             IN  IF Len(parts) < 3 THEN Rejected
                 ELSE LET time_str == parts[1]
                          name     == CleanName(Strip(parts[2]))
                          msg      == Strip(parts[3])
                      IN  IF ~MatchesTime(time_str) THEN Rejected
                          ELSE IF \E k \in skip_keywords : Contains(msg, k)
                               THEN Rejected
                          ELSE IF msg = MsgPhotos \/ msg = MsgStickers
                               THEN Rejected
                          ELSE IF name \in invalid_names THEN Rejected
                          ELSE [ok |-> TRUE, name |-> name, msg |-> msg]

\* messages[name].append(msg), with the list made on the speaker's first
\* message.  The dictionary is a function from names to message lists.
AppendMessage(msgs, name, msg) ==
    IF name \in DOMAIN msgs THEN [msgs EXCEPT ![name] = Append(@, msg)]
    ELSE (name :> <<msg>>) @@ msgs

ProcessLine(msgs, raw) ==
    LET t == ParseLine(raw)
    IN  IF t.ok THEN AppendMessage(msgs, t.name, t.msg) ELSE msgs

\* The dictionary comprehension of line 105.
ValidSpeakersAtLeastTwo(msgs) ==
    [k \in {n \in DOMAIN msgs : Len(msgs[n]) >= MinMessages - 1}
        |-> Join(msgs[k], <<"\n">>)]

ValidSpeakers(msgs) ==
    [k \in {n \in DOMAIN msgs : Len(msgs[n]) >= MinMessages}
        |-> Join(msgs[k], <<"\n">>)]

RECURSIVE ProcessLines(_, _)
ProcessLines(msgs, lines) ==
    IF lines = <<>> THEN msgs
    ELSE ProcessLines(ProcessLine(msgs, Head(lines)), Tail(lines))

EmptyDict == [k \in {} |-> <<>>]

parse_line_chat_dynamic(file_content) ==
    ValidSpeakers(ProcessLines(EmptyDict, Split(file_content, "\n")))

\* The lines a log of the model is made of.
LnTab          == <<"9", ":", "0", "5", "\t", "A", "\t", "h", "i">>   \* '9:05\tA\thi'
LnSpace        == <<"2", "3", ":", "5", "9", " ", "A", " ", "s", "e", "e", " ", "y", "o", "u">>   \* '23:59 A see you'
LnCr           == <<"1", "2", ":", "3", "0", "\t", "B", "\t", "o", "k", "\r">>   \* '12:30\tB\tok\r'
LnMidnight     == <<"0", ":", "0", "0", " ", "B", " ", "y", "o">>   \* '0:00 B yo'
LnHour24       == <<"2", "4", ":", "0", "0", "\t", "A", "\t", "x">>   \* '24:00\tA\tx'
LnHour99       == <<"9", "9", ":", "9", "9", " ", "B", " ", "z">>   \* '99:99 B z'
LnPhotosName   == <<"1", "0", ":", "0", "0", "\t", "A", " ", "P", "h", "o", "t", "o", "s", "\t", "p", "i", "c">>   \* '10:00\tA Photos\tpic'
LnContinuation == <<"a", "n", "d", " ", "s", "o", " ", "o", "n">>   \* 'and so on'
LnShortMinute  == <<"1", ":", "5", "\t", "A", "\t", "b", "a", "d">>   \* '1:5\tA\tbad'
LnLongHour     == <<"1", "2", "3", ":", "0", "0", " ", "A", " ", "b", "a", "d">>   \* '123:00 A bad'
LnPlaceholder  == <<"1", "2", ":", "0", "0", "\t", "A", "\t", "[", "P", "h", "o", "t", "o", "s", "]">>   \* '12:00\tA\t[Photos]'
LnReserved     == <<"1", "2", ":", "0", "0", "\t", "Y", "o", "u", "\t", "h", "e", "y">>   \* '12:00\tYou\they'
LnNotice       == <<"1", "2", ":", "0", "0", "\t", "B", "\t", "A", " ", "i", "n", "v", "i", "t", "e", "d", " ", "C">>   \* '12:00\tB\tA invited C'
LnBlank        == <<>>   \* ''
LnTwoFields    == <<"1", "2", ":", "0", "0", " ", "A">>   \* '12:00 A'

LineChoices ==
    { LnTab,
      LnSpace,
      LnCr,
      LnMidnight,
      LnHour24,
      LnHour99,
      LnPhotosName,
      LnContinuation,
      LnShortMinute,
      LnLongHour,
      LnPlaceholder,
      LnReserved,
      LnNotice,
      LnBlank,
      LnTwoFields }

MaxLines == 6    \* longest log the parser's specification reads

IdleParse ==
    /\ p_messages = EmptyDict /\ p_accepted = <<>> /\ p_nread = 0
    /\ p_out = EmptyDict /\ p_pc = "idle"

InitParse ==
    /\ p_messages = EmptyDict /\ p_accepted = <<>> /\ p_nread = 0
    /\ p_out = EmptyDict /\ p_pc = "loop"

\* One turn of the loop on the log's next line.  p_accepted records, in
\* order, the lines that went into a transcript.
ReadLine(raw) ==
    /\ p_pc = "loop"
    /\ p_nread < MaxLines
    /\ p_messages' = ProcessLine(p_messages, raw)
    /\ p_accepted' = IF ParseLine(raw).ok
                     THEN Append(p_accepted, [line |-> raw,
                                              name |-> ParseLine(raw).name,
                                              msg  |-> ParseLine(raw).msg])
                     ELSE p_accepted
    /\ p_nread' = p_nread + 1
    /\ UNCHANGED <<p_out, p_pc, alignVars, compatVars, sessVars>>

\* The end of the log: the speakers kept, each with their joined messages.
FinishParse ==
    /\ p_pc = "loop"
    /\ p_out' = ValidSpeakers(p_messages)
    /\ p_pc' = "done"
    /\ UNCHANGED <<p_messages, p_accepted, p_nread, alignVars, compatVars, sessVars>>

-----------------------------------------------------------------------------
(* tool_generate_bipolar_chart, mbti.py 120-174 *)

\* A profile is a record with some of the fields name, mbti, scores: the
\* analysis stores the model's list as it came, so a field may be missing.
HasKey(person, key) == key \in DOMAIN person

\* len(colors), line 138
PaletteLen == 7

NoChart == [set |-> FALSE, traces |-> <<>>]

\* One go.Scatter trace: the aligned scores on the four axes, the colour by
\* the position modulo the palette, the label above or below by its parity.
Trace(person, i) ==
    [name  |-> person.name,
     mbti  |-> person.mbti,
     x     |-> align_scores_with_mbti(person.mbti, person.scores).ret,
     y     |-> <<0, 1, 2, 3>>,
     color |-> i % PaletteLen,
     textposition |-> IF i % 2 = 0 THEN "top center" ELSE "bottom center"]

\* The value of st.session_state.agent_chart after the call: the figure, or
\* None when a lookup raised inside the try.  i counts from 0 in the code.
tool_generate_bipolar_chart(analysis_results) ==
    IF \A i \in 1..Len(analysis_results) :
           /\ HasKey(analysis_results[i], "name")
           /\ HasKey(analysis_results[i], "mbti")
           /\ HasKey(analysis_results[i], "scores")
    THEN [set |-> TRUE,
          traces |-> [i \in 1..Len(analysis_results)
                         |-> Trace(analysis_results[i], i - 1)]]
    ELSE NoChart

-----------------------------------------------------------------------------
(* chat_response_generator, mbti.py 239-302 *)

ChartTool  == "tool_generate_bipolar_chart"
CompatTool == "tool_calculate_compatibility"

\* The CJK characters of the model's prompts, by code point.
CJK == {"U+5716", "U+8868"}

\* re.search(r'[\u4e00-\u9fff]', text)
is_chinese(text) == \E i \in 1..Len(text) : text[i] \in CJK

\* A reply's text is a sequence of words, a tool identifier being one word:
\*  identifier in content  is the word's presence.
HasWord(content, w) == \E i \in 1..Len(content) : content[i] = w

NoArgs == <<>>

\* What a call returns or raises, and what it did on the way.
\*   raised:      an exception left the function (line 242, outside the try)
\*   got_reply:   call_ollama_api returned
\*   path:        the branch taken on the reply
\*   compat_args: the arguments of the tool_calculate_compatibility call made
\*   chart:       st.session_state.agent_chart after the call
Outcome(raised, got_reply, content, path, compat_args, chart, response) ==
    [raised |-> raised, got_reply |-> got_reply, content |-> content,
     path |-> path, compat_args |-> compat_args, chart |-> chart,
     response |-> response]

\* The texts returned.  kind: "chart" the chart confirmation, "compat" the
\* match score, "decline" the pairs-only text, "text" the reply itself,
\* "error" the text of a caught exception, "none" nothing returned.
Response(kind, chinese, n, names, score, text) ==
    [kind |-> kind, chinese |-> chinese, n |-> n, names |-> names,
     score |-> score, text |-> text]

NoResponse == Response("none", FALSE, 0, <<>>, 0, <<>>)

\* The routing of lines 277-299 with the two tests in the other order.
RouteCompatFirst(results, chart, chinese, content) ==
    IF HasWord(content, CompatTool)
    THEN IF Len(results) = 2
         THEN IF HasKey(results[1], "scores") /\ HasKey(results[2], "scores")
              THEN LET s1 == results[1].scores
                       s2 == results[2].scores
                       score == tool_calculate_compatibility(s1, s2)
                   IN  Outcome(FALSE, TRUE, content, "compat", <<s1, s2>>, chart,
                           Response("compat", chinese, 0,
                                    <<results[1].name, results[2].name>>,
                                    score, <<>>))
              ELSE Outcome(FALSE, TRUE, content, "compat", NoArgs, chart,
                       Response("error", FALSE, 0, <<>>, 0, <<>>))
         ELSE Outcome(FALSE, TRUE, content, "compat", NoArgs, chart,
                  Response("decline", FALSE, 0, <<>>, 0, <<>>))
    ELSE IF HasWord(content, ChartTool)
    THEN Outcome(FALSE, TRUE, content, "chart", NoArgs,
             tool_generate_bipolar_chart(results),
             Response("chart", chinese, Len(results), <<>>, 0, <<>>))
    ELSE Outcome(FALSE, TRUE, content, "direct", NoArgs, chart,
             Response("text", FALSE, 0, <<>>, 0, content))

\* The routing with the pair test widened to two or more profiles.
RouteAnyGroup(results, chart, chinese, content) ==
    IF HasWord(content, ChartTool)
    THEN Outcome(FALSE, TRUE, content, "chart", NoArgs,
             tool_generate_bipolar_chart(results),
             Response("chart", chinese, Len(results), <<>>, 0, <<>>))
    ELSE IF HasWord(content, CompatTool)
    THEN IF Len(results) >= 2
         THEN IF HasKey(results[1], "scores") /\ HasKey(results[2], "scores")
              THEN LET s1 == results[1].scores
                       s2 == results[2].scores
                       score == tool_calculate_compatibility(s1, s2)
                   IN  Outcome(FALSE, TRUE, content, "compat", <<s1, s2>>, chart,
                           Response("compat", chinese, 0,
                                    <<results[1].name, results[2].name>>,
                                    score, <<>>))
              ELSE Outcome(FALSE, TRUE, content, "compat", NoArgs, chart,
                       Response("error", FALSE, 0, <<>>, 0, <<>>))
         ELSE Outcome(FALSE, TRUE, content, "compat", NoArgs, chart,
                  Response("decline", FALSE, 0, <<>>, 0, <<>>))
    ELSE Outcome(FALSE, TRUE, content, "direct", NoArgs, chart,
             Response("text", FALSE, 0, <<>>, 0, content))

\* Lines 277-299: the reply's routing.  A missing scores field raises
\* KeyError at line 288 or 289, which the except of line 301 turns into the
\* returned "Error: ..." text.
Route(results, chart, chinese, content) ==
    IF HasWord(content, ChartTool)
    THEN Outcome(FALSE, TRUE, content, "chart", NoArgs,
             tool_generate_bipolar_chart(results),
             Response("chart", chinese, Len(results), <<>>, 0, <<>>))
    ELSE IF HasWord(content, CompatTool)
    THEN IF Len(results) = 2
         THEN IF HasKey(results[1], "scores") /\ HasKey(results[2], "scores")
              THEN LET s1 == results[1].scores
                       s2 == results[2].scores
                       score == tool_calculate_compatibility(s1, s2)
                   IN  Outcome(FALSE, TRUE, content, "compat", <<s1, s2>>, chart,
                           Response("compat", chinese, 0,
                                    <<results[1].name, results[2].name>>,
                                    score, <<>>))
              ELSE Outcome(FALSE, TRUE, content, "compat", NoArgs, chart,
                       Response("error", FALSE, 0, <<>>, 0, <<>>))
         ELSE Outcome(FALSE, TRUE, content, "compat", NoArgs, chart,
                  Response("decline", FALSE, 0, <<>>, 0, <<>>))
    ELSE Outcome(FALSE, TRUE, content, "direct", NoArgs, chart,
             Response("text", FALSE, 0, <<>>, 0, content))

\* ctx: st.session_state.context_data; chart: st.session_state.agent_chart;
\* api: what call_ollama_api does, [ok |-> it returned, content |-> the text].
chat_response_generator(ctx, chart, user_input, api) ==
    LET results == IF ctx.set THEN ctx.analysis_results ELSE <<>>
        user_lang_chinese == is_chinese(user_input)
    IN  IF \E i \in 1..Len(results) : ~HasKey(results[i], "name")
        THEN Outcome(TRUE, FALSE, <<>>, "none", NoArgs, chart, NoResponse)
        ELSE IF ~api.ok
        THEN Outcome(FALSE, FALSE, <<>>, "none", NoArgs, chart,
                 Response("error", FALSE, 0, <<>>, 0, <<>>))
        ELSE Route(results, chart, user_lang_chinese, api.content)

-----------------------------------------------------------------------------
(* run_dynamic_analysis, mbti.py 192-234 *)

\* What the model call gives the analysis:
\*   "transport_error"  call_ollama_api raised
\*   "no_json"          the text holds no {...}
\*   "invalid_json"     json.loads raised on the match
\*   "json"             the match parsed to the object obj, a record of its
\*                      keys (present: the key "results" is there)
AnalysisReply(kind, present, nonempty, results) ==
    [kind |-> kind,
     obj |-> [present |-> present, nonempty |-> nonempty, results |-> results]]

NoObject == [some |-> FALSE, present |-> FALSE, nonempty |-> FALSE, results |-> <<>>]

\* The parsed object, or None.  The prompt (each transcript cut to 600
\* characters) goes to the model and changes nothing here.
run_dynamic_analysis(selected_speakers_data, reply) ==
    IF reply.kind = "json"
    THEN [some |-> TRUE, present |-> reply.obj.present,
          nonempty |-> reply.obj.nonempty, results |-> reply.obj.results]
    ELSE NoObject

-----------------------------------------------------------------------------
(* The session: mbti.py 14-23 and 307-405 *)

MaxMessages == 5    \* chat turns stop when the history would grow past this

NameA == <<"A">>
NameB == <<"B">>
NameC == <<"C">>

LnC1 == <<"8", ":", "0", "0", "\t", "C", "\t", "o", "n", "e">>
LnC2 == <<"8", ":", "0", "1", " ", "C", " ", "t", "w", "o">>
LnC3 == <<"8", ":", "0", "2", "\t", "C", "\t", "t", "h", "r", "e", "e">>

\* The files the user uploads, by name.
Logs == {"log1", "log2", "log3"}

\* log1: A and B interleaved, three messages each.  log2: C with three
\* messages, A with one.  log3: no speaker with three messages.
LogLines(f) ==
    CASE f = "log1" -> <<LnTab, LnCr, LnSpace, LnMidnight, LnContinuation,
                         LnPhotosName, LnHour99>>
      [] f = "log2" -> <<LnC1, LnTab, LnC2, LnBlank, LnC3>>
      [] f = "log3" -> <<LnTab, LnContinuation, LnSpace>>

\* uploaded_file.getvalue().decode("utf-8")
FileContent(f) == Join(LogLines(f), <<"\n">>)

ProfA        == [name |-> NameA, mbti |-> <<"I", "N", "T", "J">>,
                 scores |-> <<60, 20, 30, 40>>]
ProfB        == [name |-> NameB, mbti |-> <<"e", "n", "f", "p">>,
                 scores |-> <<80, 90, 11, 50>>]
ProfNoScores == [name |-> NameC, mbti |-> <<"I", "S", "T", "P">>]
ProfNoName   == [mbti |-> <<"E", "S", "F", "J">>, scores |-> <<70, 30, 60, 20>>]

MaxProfiles == 3    \* longest list of profiles in the model's reply

ProfileChoices == {ProfA, ProfB, ProfNoScores, ProfNoName}

\* The lists the model's JSON holds under "results".
ResultChoices == SeqsUpTo(ProfileChoices, MaxProfiles)

AnalysisReplies ==
    { AnalysisReply("transport_error", FALSE, FALSE, <<>>),
      AnalysisReply("no_json", FALSE, FALSE, <<>>),
      AnalysisReply("invalid_json", FALSE, FALSE, <<>>),
      AnalysisReply("json", FALSE, FALSE, <<>>),
      AnalysisReply("json", FALSE, TRUE, <<>>) }
    \cup {AnalysisReply("json", TRUE, TRUE, r) : r \in ResultChoices}

\* The model's replies to a chat turn, and the call failing.
ChatReplies ==
    { [ok |-> FALSE, content |-> <<>>],
      [ok |-> TRUE, content |-> <<>>],
      [ok |-> TRUE, content |-> <<"advice">>],
      [ok |-> TRUE, content |-> <<"TOOL_CALL", ChartTool>>],
      [ok |-> TRUE, content |-> <<"TOOL_CALL", CompatTool>>],
      [ok |-> TRUE, content |-> <<ChartTool, CompatTool>>],
      [ok |-> TRUE, content |-> <<CompatTool, "or", ChartTool>>] }

Prompts == {<<"h", "i">>, <<"U+5716", "U+8868">>}

NoContext == [set |-> FALSE, analysis_results |-> <<>>, dialogue |-> "none"]

NoTurn == [active |-> FALSE, user_input |-> <<>>, chart_before |-> NoChart,
           out |-> Outcome(FALSE, FALSE, <<>>, "none", NoArgs, NoChart, NoResponse)]

IdleSess ==
    /\ api_key = FALSE /\ uploaded_file = "none" /\ selected_names = {}
    /\ messages = <<>> /\ analysis_done = FALSE /\ agent_chart = NoChart
    /\ context_data = NoContext /\ parsed_speakers = EmptyDict
    /\ turn = NoTurn

\* Lines 14-23: the defaults of a fresh st.session_state; no file, no key.
InitSess == IdleSess

\* speakers_dict of line 326 for each of the files.
ParsedLog == [f \in Logs |-> parse_line_chat_dynamic(FileContent(f))]

\* Lines 320-331, run at the top of every script run: the upload is parsed
\* only while parsed_speakers is empty, and kept only when it has speakers.
ParseBlock(file, key, parsed) ==
    IF file # "none" /\ key /\ parsed = EmptyDict
    THEN ParsedLog[file]
    ELSE parsed

\* The user puts a file into the uploader, or takes it out.
Upload(f) ==
    /\ f # uploaded_file
    /\ uploaded_file' = f
    /\ parsed_speakers' = ParseBlock(f, api_key, parsed_speakers)
    /\ turn' = NoTurn
    /\ UNCHANGED <<api_key, selected_names, messages, analysis_done, agent_chart,
                   context_data, alignVars, compatVars, parseVars>>

\* The user types the key, or empties the field.
SetApiKey(k) ==
    /\ k # api_key
    /\ api_key' = k
    /\ parsed_speakers' = ParseBlock(uploaded_file, k, parsed_speakers)
    /\ turn' = NoTurn
    /\ UNCHANGED <<uploaded_file, selected_names, messages, analysis_done,
                   agent_chart, context_data, alignVars, compatVars, parseVars>>

\* Lines 312-314: st.session_state.clear() and st.rerun(); the rerun sets the
\* defaults again and runs the parse block.  The widgets keep their values.
ResetSession ==
    /\ messages' = <<>>
    /\ analysis_done' = FALSE
    /\ agent_chart' = NoChart
    /\ context_data' = NoContext
    /\ parsed_speakers' = ParseBlock(uploaded_file, api_key, EmptyDict)
    /\ turn' = NoTurn
    /\ UNCHANGED <<api_key, uploaded_file, selected_names,
                   alignVars, compatVars, parseVars>>

\* Lines 367-368: the welcome text reads every profile's name and mbti.
IntroBuilds(results) ==
    \A i \in 1..Len(results) :
        HasKey(results[i], "name") /\ HasKey(results[i], "mbti")

\* Lines 347-378: the Start Analysis button with the names selected.  The
\* context is stored before the welcome text is built: a KeyError there ends
\* the run with the context stored and no message appended.
StartAnalysis(selected, reply) ==
    /\ uploaded_file # "none" /\ api_key
    /\ parsed_speakers # EmptyDict
    /\ ~analysis_done
    /\ selected \subseteq DOMAIN parsed_speakers
    /\ selected_names' = selected
    /\ turn' = NoTurn
    /\ LET selected_data == [n \in selected |-> parsed_speakers[n]]
           result_json   == run_dynamic_analysis(selected_data, reply)
       IN  IF selected # {} /\ result_json.some /\ result_json.nonempty
              /\ result_json.present
           THEN /\ context_data' = [set |-> TRUE,
                                    analysis_results |-> result_json.results,
                                    dialogue |-> uploaded_file]
                /\ analysis_done' = TRUE
                /\ messages' = IF IntroBuilds(result_json.results)
                               THEN Append(messages, "assistant")
                               ELSE messages
           ELSE UNCHANGED <<context_data, analysis_done, messages>>
    /\ UNCHANGED <<api_key, uploaded_file, agent_chart, parsed_speakers,
                   alignVars, compatVars, parseVars>>

\* Lines 390-403: one chat turn.  A history entry is kept by its role.  When
\* chat_response_generator raises, the run ends after the user's entry.
ChatTurn(user_input, api) ==
    /\ uploaded_file # "none" /\ api_key
    /\ analysis_done
    /\ Len(messages) + 2 <= MaxMessages
    /\ LET out == chat_response_generator(context_data, agent_chart, user_input, api)
       IN  /\ agent_chart' = out.chart
           /\ messages' = IF out.raised THEN Append(messages, "user")
                          ELSE messages \o <<"user", "assistant">>
           /\ turn' = [active |-> TRUE, user_input |-> user_input,
                       chart_before |-> agent_chart, out |-> out]
    /\ parsed_speakers' = ParseBlock(uploaded_file, api_key, parsed_speakers)
    /\ UNCHANGED <<api_key, uploaded_file, selected_names, analysis_done,
                   context_data, alignVars, compatVars, parseVars>>

-----------------------------------------------------------------------------
(* The specifications *)

\* The session.
Init == IdleAlign /\ IdleCompat /\ IdleParse /\ InitSess

Next ==
    \/ \E f \in Logs \cup {"none"} : Upload(f)
    \/ \E k \in BOOLEAN : SetApiKey(k)
    \/ ResetSession
    \/ \E sel \in SUBSET {NameA, NameB, NameC} :
           \E reply \in AnalysisReplies : StartAnalysis(sel, reply)
    \/ \E user_input \in Prompts : \E api \in ChatReplies : ChatTurn(user_input, api)

Spec == Init /\ [][Next]_vars

\* Calls of align_scores_with_mbti.
AlignInit == InitAlign /\ IdleCompat /\ IdleParse /\ IdleSess
AlignSpec == AlignInit /\ [][Align]_vars

\* Calls of tool_calculate_compatibility.
CompatInit == IdleAlign /\ InitCompat /\ IdleParse /\ IdleSess
CompatSpec == CompatInit /\ [][Compat]_vars

\* Runs of parse_line_chat_dynamic.
ParseInit == IdleAlign /\ IdleCompat /\ InitParse /\ IdleSess
ParseNext == (\E raw \in LineChoices : ReadLine(raw)) \/ FinishParse
ParseSpec == ParseInit /\ [][ParseNext]_vars

-----------------------------------------------------------------------------
(* The claims *)

LowLetters == {"I", "i", "S", "s", "T", "t", "J", "j"}

CodeENTJ == <<"E", "N", "T", "J">>

\* C1: for a valid four-letter code in any case and four scores in 0..100,
\* the aligner returns four scores, the d-th being min(score[d], 45) when the
\* code's d-th letter is the low pole and max(score[d], 55) when it is the
\* high pole; ENTJ with [10,10,10,10] gives [55,55,10,10]; the caller's
\* score list is left as it was.
C1_AlignClampsEachDimension ==
    (a_pc = "done" /\ a_mbti \in ValidCodes /\ Len(a_input) = 4) =>
        /\ Len(a_out) = 4
        /\ \A d \in 1..4 :
               a_out[d] = IF a_mbti[d] \in LowLetters
                          THEN Min(a_input[d], 45)
                          ELSE Max(a_input[d], 55)
        /\ (a_mbti = CodeENTJ /\ a_input = <<10, 10, 10, 10>>)
               => a_out = <<55, 55, 10, 10>>
        /\ a_scores = a_input

C1_Witness ==
    /\ a_pc = "done"
    /\ a_mbti = CodeENTJ
    /\ a_input = <<10, 10, 10, 10>>
    /\ a_out = <<55, 55, 10, 10>>

\* C6: the aligner returns [50,50,50,50] whenever the code is missing, empty
\* or not four letters long, or the score vector has not four elements.
C6_MalformedGivesNeutral ==
    (a_pc = "done" /\ (a_mbti = None \/ Len(a_mbti) # 4 \/ Len(a_input) # 4))
        => a_out = <<50, 50, 50, 50>>

\* The sum of the four absolute differences, written out.
ClaimDiff4(sa, sb) ==
    Abs(sa[1] - sb[1]) + Abs(sa[2] - sb[2]) + Abs(sa[3] - sb[3])
        + Abs(sa[4] - sb[4])

\* r is 100 - d/4 cut to an integer and then held within 10..99.
ClaimScoreIs(r, d) ==
    /\ r \in 10..99
    /\ (400 - d >= 4 * 99) => r = 99
    /\ (400 - d < 4 * 11) => r = 10
    /\ (400 - d < 4 * 99 /\ 400 - d >= 4 * 11)
           => (4 * r <= 400 - d /\ 400 - d < 4 * r + 4)

\* C2: for two vectors of four integers in 0..100 the scorer returns
\* 100 - (sum of the absolute differences)/4, truncated, then clamped to
\* 10..99; equal vectors give 99, all 0 against all 100 gives 10.
C2_CompatibilityFormula ==
    c_pc = "done" =>
        /\ ClaimScoreIs(c_out, ClaimDiff4(c_a, c_b))
        /\ c_a = c_b => c_out = 99
        /\ (c_a = <<0, 0, 0, 0>> /\ c_b = <<100, 100, 100, 100>>) => c_out = 10

\* A sum of 5: 98.75 is cut to 98.
C2_Witness ==
    /\ c_pc = "done"
    /\ ClaimDiff4(c_a, c_b) = 5
    /\ c_out = 98

TurnResults == IF context_data.set THEN context_data.analysis_results ELSE <<>>

\* C3: a reply holding the chart identifier takes the chart path, also when
\* it holds the compatibility identifier too: the chart builder runs over
\* all profiles, the chart confirmation is returned and no score is
\* computed; a reply holding only the compatibility identifier takes the
\* compatibility path; with neither, the reply itself is returned and the
\* chart is left as it was.
C3_RoutingPriority ==
    (turn.active /\ turn.out.got_reply) =>
        LET c == turn.out.content
            r == turn.out.response
        IN  /\ HasWord(c, ChartTool) =>
                   /\ turn.out.path = "chart"
                   /\ r.kind = "chart" /\ r.n = Len(TurnResults)
                   /\ turn.out.compat_args = NoArgs
                   /\ agent_chart.set =>
                          /\ Len(agent_chart.traces) = Len(TurnResults)
                          /\ \A i \in 1..Len(TurnResults) :
                                 agent_chart.traces[i].name = TurnResults[i].name
            /\ (HasWord(c, CompatTool) /\ ~HasWord(c, ChartTool)) =>
                   /\ turn.out.path = "compat"
                   /\ r.kind \in {"compat", "decline", "error"}
                   /\ agent_chart = turn.chart_before
            /\ (~HasWord(c, CompatTool) /\ ~HasWord(c, ChartTool)) =>
                   /\ turn.out.path = "direct"
                   /\ r.kind = "text" /\ r.text = c
                   /\ agent_chart = turn.chart_before

\* A reply with both identifiers, answered by the chart confirmation, with
\* the chart of the two profiles stored.
C3_Witness ==
    /\ turn.active /\ turn.out.got_reply
    /\ HasWord(turn.out.content, ChartTool)
    /\ HasWord(turn.out.content, CompatTool)
    /\ turn.out.response.kind = "chart"
    /\ turn.out.compat_args = NoArgs
    /\ agent_chart.set /\ Len(agent_chart.traces) = 2

C5_NoPartialContext ==
    analysis_done =>
        \A n \in selected_names :
            \E i \in 1..Len(TurnResults) :
                HasKey(TurnResults[i], "name") /\ TurnResults[i].name = n

\* C9: when the chart confirmation for N participants is returned, a chart
\* with N overlays is stored; when the chart cannot be built, nothing is
\* raised, no chart is stored and the turn does not report N charted.
C9_ConfirmationMatchesChart ==
    turn.active =>
        /\ turn.out.response.kind = "chart" =>
               /\ agent_chart.set
               /\ Len(agent_chart.traces) = turn.out.response.n
        /\ (turn.out.path = "chart" /\ ~agent_chart.set) =>
               /\ ~turn.out.raised
               /\ turn.out.response.kind # "chart"

\* C10: parsed_speakers is the parse of the log that is now uploaded, never
\* that of an earlier one.
C10_TranscriptOfCurrentUpload ==
    (uploaded_file # "none" /\ parsed_speakers # EmptyDict) =>
        parsed_speakers = parse_line_chat_dynamic(FileContent(uploaded_file))

DigitVal(c) ==
    CASE c = "0" -> 0 [] c = "1" -> 1 [] c = "2" -> 2 [] c = "3" -> 3
      [] c = "4" -> 4 [] c = "5" -> 5 [] c = "6" -> 6 [] c = "7" -> 7
      [] c = "8" -> 8 [] c = "9" -> 9

\* H:MM or HH:MM with the hour in 0..23 and two digits for the minute.
ClaimValidTimestamp(t) ==
    \/ /\ Len(t) = 4
       /\ t[1] \in Digits /\ t[2] = ":" /\ t[3] \in Digits /\ t[4] \in Digits
    \/ /\ Len(t) = 5
       /\ t[1] \in Digits /\ t[2] \in Digits /\ t[3] = ":"
       /\ t[4] \in Digits /\ t[5] \in Digits
       /\ 10 * DigitVal(t[1]) + DigitVal(t[2]) <= 23

\* C7: every line that went into a transcript has a valid timestamp as its
\* first field: H:MM or HH:MM with the hour in 0..23.
C7_OnlyTimestampedLinesCount ==
    \A i \in 1..Len(p_accepted) :
        ClaimValidTimestamp(LineParts(Strip(p_accepted[i].line))[1])

AcceptedOf(k) == SelectSeq(p_accepted, LAMBDA e : e.name = k)

\* C8: the speakers returned are those with at least three accepted
\* messages, and each one's text, split at the newlines, is that speaker's
\* accepted messages in the order of the lines and nothing else.
C8_TranscriptsPerSpeaker ==
    p_pc = "done" =>
        /\ DOMAIN p_out
               = {k \in {p_accepted[i].name : i \in 1..Len(p_accepted)} :
                      Len(AcceptedOf(k)) >= 3}
        /\ \A k \in DOMAIN p_out :
               Split(p_out[k], "\n")
                   = [i \in 1..Len(AcceptedOf(k)) |-> AcceptedOf(k)[i].msg]

\* A and B interleaved, A with three messages and B with two: A is returned
\* with its three messages, B is not.
C8_Witness ==
    /\ p_pc = "done"
    /\ [i \in 1..Len(p_accepted) |-> p_accepted[i].name]
           = <<NameA, NameB, NameA, NameB, NameA>>
    /\ DOMAIN p_out = {NameA}
    /\ Len(Split(p_out[NameA], "\n")) = 3

=============================================================================
